---- MODULE Spec2Model ----
(***************************************************************************)
(* RusticSDR: the TailRing triple buffer and its TailSink writer           *)
(* (src/src/tail_sink.rs), the BaseBandSink recording block                *)
(* (src/src/baseband_sink.rs), the control calls, the averaging window     *)
(* and the gain selection of Sdr (src/src/sdr.rs), and the message         *)
(* handlers of the UI's `update` (src/src/main.rs).                        *)
(*                                                                         *)
(* Two threads touch the TailRing: the flowgraph thread runs               *)
(* TailSink::work (the writer), the UI thread calls TailRing::get from     *)
(* Message::Tick (the reader).  Every atomic load/store and every mutex    *)
(* operation is one step, so the interleavings of the two threads are the  *)
(* behaviours.  A callback of the UI into a block is a message in flight:  *)
(* `update` waits at its position until the handler has returned.          *)
(*                                                                         *)
(* Init is the state in which the first Message::ToggleSdr has opened a    *)
(* device; Message::ToggleSdr closes it and opens a fresh one (SdrNew).    *)
(***************************************************************************)
EXTENDS Integers, Sequences, FiniteSets, TLC

\* ---------------------------------------------------------------- bounds
\* TailRing::buffer_size (FFT_AMMOUNT in the program), scaled down
buffer_size == 2
\* total number of stream items the flowgraph delivers to TailSink
MaxItems == 9
\* largest input slice one work call sees
MaxBatch == 3
\* toggle messages the recording sink handles in one run
MaxToggles == 4
\* I/Q pairs the sink writes over one run
MaxPairs == 4
\* largest sample rate a spec message carries (0 is the default spec's)
MaxRate == 2
\* frequencies a caller may ask for are 0..MaxFreq; the device advertises
\* FreqLo..FreqHi (limits.freq_range)
MaxFreq == 4
FreqLo == 1
FreqHi == 3
\* largest averaging depth the UI is taken to (fft_avg_num)
MaxDepth == 3
\* fft_avg_num of a fresh UI state (10 in the program), scaled down
StartDepth == 2
\* frames pushed into one averaging window
MaxPushes == 4
\* bins of a power frame (FFT_AMMOUNT in the program), scaled down
NBins == 2
\* largest gain a device advertises, and the number of equal parts the
\* gain slider (0..=1000) is sampled at
MaxGain == 3
GainSteps == 4
\* largest waterfall height a Resized event reports (lines, scaled down)
MaxHeight == 2

VARIABLES
    \* ---- TailRing
    tail_state,   \* AtomicUsize: 0 none, 1 a, 2 b, 3 c is current
    slots,        \* the Vecs behind the mutexes a, b, c (index 1, 2, 3)
    holder,       \* owner of each mutex: "free", "writer", "reader"
    \* ---- TailSink and the locals of one TailSink::work call
    filled,       \* TailSink::filled
    wpc,          \* position of the writer inside work
    items,        \* local `items`
    offset,       \* local `offset`
    total_items,  \* local `total_items`
    consumed,     \* items consumed by earlier work calls (sio.consume)
    lease,        \* lease.1 (0: no lease held); lease.0 guards slots[lease]
    wtarget,      \* slot of the blocking lock() get_lease is waiting on
    frame_slots,  \* slots that received items since `filled` was last 0
    \* ---- the reader (TailRing::get and the guard it returns)
    rpc,          \* position of the reader
    rtail,        \* local `tail_state` of get
    rres,         \* result of the last get: "none", "ok", "err"
    polls,        \* number of get calls begun so far (saturates at 2)
    r_at,         \* `consumed` when get loaded and work was not running, else -1
    \* ---- BaseBandSink
    spec,         \* BaseBandSink::spec
    writer,       \* BaseBandSink::writer: NoWriter, or the open WavWriter
    bb_ret,       \* Pmt returned by the last message handler
    panicked,     \* a handler or work of the block has panicked
    last,         \* the handler or call that ran last
    toggles,      \* toggle messages handled so far
    earlier,      \* I/Q pairs written by the sessions closed so far
    \* ---- Sdr and the source block behind its freq port
    driver_freq,  \* frequency the source block was last given
    set_freq_ret, \* result of the last Sdr::set_freq
    \* ---- the avg_window block of Sdr::new
    window,       \* VecDeque of the held frames, newest first
    fft_avg,      \* AtomicUsize shared with Sdr::set_fft_avg
    out_samples,  \* output of the last call of the closure
    pushes,       \* calls of the closure on this window so far
    depth_const,  \* fft_avg has held one value since the window was made
    \* ---- RustcSdrSate (the UI thread runs `update`; rpc is its position)
    sdr_on,            \* self.sdr.is_some()
    recording_toggled, \* self.recording.toggled
    fft_avg_num,       \* self.fft_avg_num
    chart_vals,        \* self.chart.vals
    handels,           \* self.waterfall.handels, newest first
    height,            \* self.waterfall.height
    ui_panicked,       \* `update` has panicked
    \* ---- gain
    gain_range,   \* limits.gain_range: the items the device advertises
    gain,         \* self.gain, the argument gain_percent of Sdr::new and set_gain
    device_gain,  \* gain the source block was last given
    \* ---- history
    r_seen,        \* newest item in the samples Tick has displayed so far
    lease_failed,  \* a try_lock of get_lease has failed since TailRing::new
    prev_len,      \* window.len() when the last call of the closure began
    work_in,       \* items.len() of the BaseBandSink::work call, when work
                   \* is the callback the flowgraph ran last (else 0)
    work_consumed, \* what that call passed to sio.input(0).consume
    work_wrote,    \* the write_sample calls of that call, in order
    call_spec,     \* the `spec` argument of the Sdr::toggle_recording call
                   \* in progress (of the last call, between calls)
    sammple_rate_val \* State::sammple_rate_val, the rate picked in the UI

ringVars == <<tail_state, slots, holder, filled, wpc, items, offset,
              total_items, consumed, lease, wtarget, frame_slots, rpc,
              rtail, rres, polls, r_at>>

bbVars == <<spec, writer, bb_ret, panicked, last, toggles, earlier>>

sdrVars == <<driver_freq, set_freq_ret>>

avgVars == <<window, fft_avg, out_samples, pushes, depth_const>>

uiVars == <<sdr_on, recording_toggled, fft_avg_num, chart_vals, handels,
            height, ui_panicked>>

gainVars == <<gain_range, gain, device_gain>>

ringHist == <<r_seen, lease_failed>>

avgHist == <<prev_len>>

workVars == <<work_in, work_consumed, work_wrote>>

callVars == <<call_spec, sammple_rate_val>>

vars == <<ringVars, bbVars, sdrVars, avgVars, uiVars, gainVars, ringHist,
         avgHist, workVars, callVars>>

Slots == 1..3

Min(x, y) == IF x <= y THEN x ELSE y

\* the k-th frame of the stream: items (k-1)*buffer_size+1 .. k*buffer_size
Frame(k) == [i \in 1..buffer_size |-> (k - 1) * buffer_size + i]

\* a slot holds a complete frame: buffer_size consecutive items of one frame
Complete(s) == \E k \in 1..MaxItems : s = Frame(k)

\* ------------------------------------------------------------ TailRing
\* TailRing::new
InitRing ==
    /\ tail_state = 0
    /\ slots = [s \in Slots |-> [i \in 1..buffer_size |-> 0]]
    /\ holder = [s \in Slots |-> "free"]
    /\ filled = 0
    /\ wpc = "idle"
    /\ items = 0
    /\ offset = 0
    /\ total_items = 0
    /\ consumed = 0
    /\ lease = 0
    /\ wtarget = 0
    /\ frame_slots = {}
    /\ rpc = "idle"
    /\ rtail = 0
    /\ rres = "none"
    /\ polls = 0
    /\ r_at = -1

\* get_lease trying the current slot itself when tail_state = 2
get_lease_try_current(t) ==
    CASE t = 2 -> 2
      [] t = 1 -> 2
      [] t = 0 -> 0
      [] OTHER -> 1

\* get_lease: the slot taken with try_lock (none when tail_state = 0)
get_lease_try(t) ==
    CASE t = 2 -> 3
      [] t = 1 -> 2
      [] t = 0 -> 0
      [] OTHER -> 1

\* get_lease falling back to the current slot when tail_state = 3
get_lease_lock_current(t) ==
    CASE t = 0 -> 1
      [] t = 2 -> 1
      [] t = 1 -> 3
      [] OTHER -> 3

\* get_lease: the slot taken with the blocking lock()
get_lease_lock(t) ==
    CASE t = 0 -> 1
      [] t = 2 -> 1
      [] t = 1 -> 3
      [] OTHER -> 2

\* writer position once a lease is held: first call of an iteration
\* (line 137) or the call after the store (line 143)
AfterLease(first) ==
    IF first THEN (IF filled = buffer_size THEN "store" ELSE "fill") ELSE "fill"

\* TailSink::work dropping a partly filled frame when a call begins
WorkBeginDropsPartial(n) ==
    /\ wpc = "idle"
    /\ consumed + n <= MaxItems
    /\ IF n > 0
       THEN /\ items' = n
            /\ total_items' = n
            /\ offset' = 0
            /\ wpc' = "lease1"
            /\ UNCHANGED consumed
       ELSE UNCHANGED <<items, total_items, offset, wpc, consumed>>
    /\ filled' = IF n > 0 /\ filled < buffer_size THEN 0 ELSE filled
    /\ UNCHANGED <<tail_state, slots, holder, lease, wtarget,
                   rpc, rtail, rres, polls, r_at>>
    /\ UNCHANGED <<frame_slots, bbVars, sdrVars, avgVars, uiVars, gainVars>>
    /\ UNCHANGED <<ringHist, avgHist, workVars, callVars>>

\* TailSink::work entered with n input items
WorkBegin(n) ==
    /\ wpc = "idle"
    /\ consumed + n <= MaxItems
    /\ IF n > 0
       THEN /\ items' = n
            /\ total_items' = n
            /\ offset' = 0
            /\ wpc' = "lease1"
            /\ UNCHANGED consumed
       ELSE UNCHANGED <<items, total_items, offset, wpc, consumed>>
    /\ UNCHANGED <<tail_state, slots, holder, filled, lease, wtarget,
                   rpc, rtail, rres, polls, r_at>>
    /\ UNCHANGED <<frame_slots, bbVars, sdrVars, avgVars, uiVars, gainVars>>
    /\ UNCHANGED <<ringHist, avgHist, workVars, callVars>>

\* get_lease: load tail_state, then try_lock the next slot
GetLeaseTry ==
    /\ wpc \in {"lease1", "lease2"}
    /\ LET first == (wpc = "lease1")
           p == get_lease_try(tail_state)
       IN  IF p # 0 /\ holder[p] = "free"
           THEN /\ holder' = [holder EXCEPT ![p] = "writer"]
                /\ lease' = p
                /\ wpc' = AfterLease(first)
                /\ filled' = IF first THEN filled ELSE 0
                /\ frame_slots' = IF first THEN frame_slots ELSE {}
                /\ UNCHANGED wtarget
           ELSE /\ wtarget' = get_lease_lock(tail_state)
                /\ wpc' = IF first THEN "lock1" ELSE "lock2"
                /\ UNCHANGED <<holder, lease, filled, frame_slots>>
    /\ UNCHANGED <<tail_state, slots, items, offset, total_items, consumed,
                   rpc, rtail, rres, polls, r_at>>
    /\ UNCHANGED <<bbVars, sdrVars, avgVars, uiVars, gainVars>>
    /\ lease_failed' = (lease_failed \/
            (get_lease_try(tail_state) # 0 /\ holder[get_lease_try(tail_state)] # "free"))
    /\ UNCHANGED <<r_seen, avgHist, workVars, callVars>>

\* get_lease: the blocking lock() of the fall-back slot
GetLeaseLock ==
    /\ wpc \in {"lock1", "lock2"}
    /\ holder[wtarget] = "free"
    /\ LET first == (wpc = "lock1")
       IN  /\ holder' = [holder EXCEPT ![wtarget] = "writer"]
           /\ lease' = wtarget
           /\ wpc' = AfterLease(first)
           /\ filled' = IF first THEN filled ELSE 0
           /\ frame_slots' = IF first THEN frame_slots ELSE {}
    /\ wtarget' = 0
    /\ UNCHANGED <<tail_state, slots, items, offset, total_items, consumed,
                   rpc, rtail, rres, polls, r_at>>
    /\ UNCHANGED <<bbVars, sdrVars, avgVars, uiVars, gainVars>>
    /\ UNCHANGED <<ringHist, avgHist, workVars, callVars>>

\* work, filled == buffer_size: tail_state.store(lease.1)
StoreTail ==
    /\ wpc = "store"
    /\ tail_state' = lease
    /\ wpc' = "drop"
    /\ UNCHANGED <<slots, holder, filled, items, offset, total_items,
                   consumed, lease, wtarget, rpc, rtail, rres, polls, r_at>>
    /\ UNCHANGED <<frame_slots, bbVars, sdrVars, avgVars, uiVars, gainVars>>
    /\ UNCHANGED <<ringHist, avgHist, workVars, callVars>>

\* work: drop(lease)
DropLease ==
    /\ wpc = "drop"
    /\ holder' = [holder EXCEPT ![lease] = "free"]
    /\ lease' = 0
    /\ wpc' = "lease2"
    /\ UNCHANGED <<tail_state, slots, filled, items, offset, total_items,
                   consumed, wtarget, rpc, rtail, rres, polls, r_at>>
    /\ UNCHANGED <<frame_slots, bbVars, sdrVars, avgVars, uiVars, gainVars>>
    /\ UNCHANGED <<ringHist, avgHist, workVars, callVars>>

\* to_fill when the frame's room is not capped by the items left
to_fill_whole_frame(f, n) == buffer_size - f

\* to_fill when the room is taken as a whole buffer whatever is filled
to_fill_ignores_filled(f, n) == Min(buffer_size, n)

\* work, to_fill with f = self.filled (0 right after a store) and n = items:
\* the room left in the frame, capped by the items left
to_fill(f, n) == Min(buffer_size - f, n)

\* work: copy to_fill items into the leased slot, advance the counters; the
\* lease goes out of scope at the end of the loop body, and the call ends
\* with sio.consume(total_items) when no items are left
Fill ==
    /\ wpc = "fill"
    /\ LET n_fill == to_fill(filled, items)
       IN  /\ slots' = [slots EXCEPT ![lease] =
                 [i \in 1..buffer_size |->
                     IF i > filled /\ i <= filled + n_fill
                     THEN consumed + offset + (i - filled)
                     ELSE @[i]]]
           /\ offset' = offset + n_fill
           /\ filled' = filled + n_fill
           /\ items' = items - n_fill
           /\ wpc' = IF items - n_fill # 0 THEN "lease1" ELSE "idle"
           /\ consumed' = IF items - n_fill # 0 THEN consumed
                          ELSE consumed + total_items
    /\ holder' = [holder EXCEPT ![lease] = "free"]
    /\ frame_slots' = frame_slots \cup {lease}
    /\ lease' = 0
    /\ UNCHANGED <<tail_state, total_items, wtarget, rpc, rtail, rres,
                   polls, r_at>>
    /\ UNCHANGED <<bbVars, sdrVars, avgVars, uiVars, gainVars>>
    /\ UNCHANGED <<ringHist, avgHist, workVars, callVars>>

\* while self.<deque>.len() >= <bound> { pop_back }, as avg_window and
\* WaterFall::add_line both run it before push_front
RECURSIVE Evict(_, _)
\* the same with `if` in place of `while`
EvictOnce(w, bound) ==
    IF Len(w) >= bound
    THEN SubSeq(w, 1, Len(w) - 1)
    ELSE w

Evict(w, bound) ==
    IF Len(w) >= bound
    THEN Evict(SubSeq(w, 1, Len(w) - 1), bound)
    ELSE w

\* FreqChart::new: the display limits add_line is called with
fft_max == 90
fft_min == 0

\* add_line: one pixel per value, coloured by val.clamp(min, max) / max
Line(sample) ==
    [i \in DOMAIN sample |->
        IF sample[i] < fft_min THEN fft_min
        ELSE IF sample[i] > fft_max THEN fft_max ELSE sample[i]]

\* WaterFall::add_line
add_line(h, bound, sample) == <<Line(sample)>> \o Evict(h, bound)

\* the newest item among m and the items of a displayed sample
Newest(m, sample) ==
    CHOOSE x \in {m} \cup {sample[i] : i \in DOMAIN sample} :
        \A y \in {m} \cup {sample[i] : i \in DOMAIN sample} : x >= y

\* where `update` goes after the preview part of Message::Tick
AfterGet == IF recording_toggled THEN "dur" ELSE "idle"

\* Message::Tick with a device open, down to TailRing::get's load of
\* tail_state
GetLoad ==
    /\ rpc = "idle"
    /\ sdr_on
    /\ ~ui_panicked
    /\ rtail' = tail_state
    /\ rpc' = "try"
    /\ rres' = "none"
    /\ polls' = Min(polls + 1, 2)
    /\ r_at' = IF wpc = "idle" THEN consumed ELSE -1
    /\ UNCHANGED <<tail_state, slots, holder, filled, wpc, items, offset,
                   total_items, consumed, lease, wtarget>>
    /\ UNCHANGED <<frame_slots, bbVars, sdrVars, avgVars, uiVars, gainVars>>
    /\ UNCHANGED <<ringHist, avgHist, workVars, callVars>>

\* get taking the slot with lock() instead of try_lock()
GetLock ==
    /\ rpc = "try"
    /\ rtail # 0 => holder[rtail] = "free"
    /\ IF rtail # 0
       THEN /\ holder' = [holder EXCEPT ![rtail] = "reader"]
            /\ rres' = "ok"
            /\ rpc' = "hold"
       ELSE /\ rres' = "err"
            /\ rpc' = AfterGet
            /\ UNCHANGED holder
    /\ UNCHANGED <<tail_state, slots, filled, wpc, items, offset,
                   total_items, consumed, lease, wtarget, rtail, polls, r_at>>
    /\ UNCHANGED <<frame_slots, bbVars, sdrVars, avgVars, uiVars, gainVars>>
    /\ UNCHANGED <<ringHist, avgHist, workVars, callVars>>

\* Message::Tick blanking the chart when get fails
GetTryLockBlank ==
    /\ rpc = "try"
    /\ IF rtail # 0 /\ holder[rtail] = "free"
       THEN /\ holder' = [holder EXCEPT ![rtail] = "reader"]
            /\ rres' = "ok"
            /\ rpc' = "hold"
            /\ UNCHANGED chart_vals
       ELSE /\ rres' = "err"
            /\ rpc' = AfterGet
            /\ chart_vals' = [i \in 1..buffer_size |-> 0]
            /\ UNCHANGED holder
    /\ UNCHANGED <<tail_state, slots, filled, wpc, items, offset,
                   total_items, consumed, lease, wtarget, rtail, polls, r_at>>
    /\ UNCHANGED <<sdr_on, recording_toggled, fft_avg_num, handels, height,
                   ui_panicked>>
    /\ UNCHANGED <<frame_slots, bbVars, sdrVars, avgVars, gainVars>>
    /\ UNCHANGED <<ringHist, avgHist, workVars, callVars>>

\* TailRing::get: try_lock of the slot named by the loaded value
GetTryLock ==
    /\ rpc = "try"
    /\ IF rtail # 0 /\ holder[rtail] = "free"
       THEN /\ holder' = [holder EXCEPT ![rtail] = "reader"]
            /\ rres' = "ok"
            /\ rpc' = "hold"
       ELSE /\ rres' = "err"
            /\ rpc' = AfterGet
            /\ UNCHANGED holder
    /\ UNCHANGED <<tail_state, slots, filled, wpc, items, offset,
                   total_items, consumed, lease, wtarget, rtail, polls, r_at>>
    /\ UNCHANGED <<frame_slots, bbVars, sdrVars, avgVars, uiVars, gainVars>>
    /\ UNCHANGED <<ringHist, avgHist, workVars, callVars>>

\* Message::Tick after a successful get: the sample is copied into
\* chart.vals and added to the waterfall, then the guard is dropped.  With
\* height = 0 the eviction loop of add_line never ends.
DropGuard ==
    /\ rpc = "hold"
    /\ height >= 1
    /\ chart_vals' = slots[rtail]
    /\ handels' = add_line(handels, height, slots[rtail])
    /\ holder' = [holder EXCEPT ![rtail] = "free"]
    /\ rpc' = AfterGet
    /\ UNCHANGED <<tail_state, slots, filled, wpc, items, offset,
                   total_items, consumed, lease, wtarget, rtail, rres,
                   polls, r_at>>
    /\ UNCHANGED <<sdr_on, recording_toggled, fft_avg_num, height,
                   ui_panicked>>
    /\ UNCHANGED <<frame_slots, bbVars, sdrVars, avgVars, gainVars>>
    /\ r_seen' = IF Complete(slots[rtail])
                 THEN Newest(r_seen, slots[rtail])
                 ELSE r_seen
    /\ UNCHANGED <<lease_failed, avgHist, workVars, callVars>>

\* -------------------------------------------------------- BaseBandSink
Formats == {"i16", "f32", "i8"}

Rates == 0..MaxRate

\* BaseBandSpec values a spec message can carry
Specs == [format : Formats, sample_rate : Rates]

\* #[derive(Default)] of BaseBandSpec: format i16, sample_rate 0
DefaultSpec == [format |-> "i16", sample_rate |-> 0]

\* writer: None
NoWriter == [open |-> FALSE]

\* bit_per_sample of toggle_handler
bit_per_sample(f) ==
    CASE f = "i16" -> 16
      [] f = "f32" -> 32
      [] OTHER -> 8

\* sample_format of toggle_handler
sample_format(f) == IF f = "f32" THEN "Float" ELSE "Int"

\* hound::WavWriter::create(file_name, wav_spec): nothing written yet
CreateWriter(sp) ==
    [open |-> TRUE,
     channels |-> 2,
     sample_rate |-> sp.sample_rate,
     bits_per_sample |-> bit_per_sample(sp.format),
     sample_format |-> sample_format(sp.format),
     written |-> 0]

\* hound::WavWriter::duration: samples written, per channel
duration(w) == w.written \div w.channels

Pmt(tag, val) == [tag |-> tag, val |-> val]

\* BaseBandSink::new
InitBB ==
    /\ spec = DefaultSpec
    /\ writer = NoWriter
    /\ bb_ret = Pmt("none", 0)
    /\ panicked = FALSE
    /\ last = "new"
    /\ toggles = 0
    /\ earlier = 0

\* toggle_handler that opens a fresh file also when one is open
ToggleAlwaysOpens(freq, create_ok) ==
    /\ ~panicked
    /\ toggles < MaxToggles
    /\ last' = "toggle"
    /\ IF create_ok
       THEN /\ writer' = CreateWriter(spec)
            /\ bb_ret' = Pmt("Bool", TRUE)
            /\ toggles' = toggles + 1
            /\ UNCHANGED panicked
       ELSE /\ panicked' = TRUE
            /\ UNCHANGED <<writer, bb_ret, toggles>>
    /\ earlier' = IF writer # NoWriter THEN earlier + duration(writer)
                  ELSE earlier
    /\ UNCHANGED <<spec, ringVars, sdrVars,
                   avgVars, uiVars, gainVars>>
    /\ work_in' = 0
    /\ work_consumed' = 0
    /\ work_wrote' = <<>>
    /\ UNCHANGED <<ringHist, avgHist, callVars>>

\* BaseBandSink::toggle_handler(p) with p = Pmt::F64(freq); create_ok says
\* whether WavWriter::create succeeds, its unwrap() panics otherwise
ToggleHandler(freq, create_ok) ==
    /\ ~panicked
    /\ toggles < MaxToggles
    /\ last' = "toggle"
    /\ IF writer # NoWriter
       THEN /\ writer' = NoWriter
            /\ bb_ret' = Pmt("Bool", FALSE)
            /\ toggles' = toggles + 1
            /\ earlier' = earlier + duration(writer)
            /\ UNCHANGED panicked
       ELSE IF create_ok
            THEN /\ writer' = CreateWriter(spec)
                 /\ bb_ret' = Pmt("Bool", TRUE)
                 /\ toggles' = toggles + 1
                 /\ UNCHANGED <<panicked, earlier>>
            ELSE /\ panicked' = TRUE
                 /\ UNCHANGED <<writer, bb_ret, toggles, earlier>>
    /\ UNCHANGED <<spec, ringVars, sdrVars,
                   avgVars, uiVars, gainVars>>
    /\ work_in' = 0
    /\ work_consumed' = 0
    /\ work_wrote' = <<>>
    /\ UNCHANGED <<ringHist, avgHist, callVars>>

\* the Pmt values a spec message can carry: Pmt::Any(BaseBandSpec), or a
\* Pmt of another kind
SpecMsgs == [any : {TRUE}, val : Specs] \cup [any : {FALSE}, val : {0}]

\* BaseBandSink::spec_handler(p): a Pmt that is not Pmt::Any is read as
\* the default spec
SpecHandler(p) ==
    /\ ~panicked
    /\ spec' = IF p.any THEN p.val ELSE DefaultSpec
    /\ bb_ret' = Pmt("Ok", 0)
    /\ last' = "spec"
    /\ UNCHANGED <<writer, panicked, toggles, earlier, ringVars, sdrVars,
                   avgVars, uiVars, gainVars>>
    /\ work_in' = 0
    /\ work_consumed' = 0
    /\ work_wrote' = <<>>
    /\ UNCHANGED <<ringHist, avgHist, callVars>>

\* BaseBandSink::duration_handler: u32 division, a zero sample rate panics
DurationHandler ==
    /\ ~panicked
    /\ last' = "duration"
    /\ IF writer # NoWriter
       THEN IF spec.sample_rate = 0
            THEN /\ panicked' = TRUE
                 /\ UNCHANGED bb_ret
            ELSE /\ bb_ret' = Pmt("F32", duration(writer) \div spec.sample_rate)
                 /\ UNCHANGED panicked
       ELSE /\ bb_ret' = Pmt("F32", 0)
            /\ UNCHANGED panicked
    /\ UNCHANGED <<spec, writer, toggles, earlier, ringVars, sdrVars,
                   avgVars, uiVars, gainVars>>
    /\ work_in' = 0
    /\ work_consumed' = 0
    /\ work_wrote' = <<>>
    /\ UNCHANGED <<ringHist, avgHist, callVars>>

\* the write_sample calls of work for items k..n of the input slice: re
\* then im of each item, converted as self.spec.format says
RECURSIVE WriteCalls(_, _, _)
WriteCalls(k, n, format) ==
    IF k > n THEN <<>>
    ELSE <<[part |-> "re", item |-> k, as |-> format],
           [part |-> "im", item |-> k, as |-> format]>>
         \o WriteCalls(k + 1, n, format)

\* BaseBandSink::work consuming its input only while a writer is open
BaseBandWorkIdleKeepsInput(n) ==
    /\ ~panicked
    /\ writer # NoWriter => earlier + duration(writer) + n <= MaxPairs
    /\ last' = "work"
    /\ work_in' = n
    /\ IF n > 0 /\ writer # NoWriter
       THEN /\ writer' = [writer EXCEPT !.written = @ + 2 * n]
            /\ work_wrote' = WriteCalls(1, n, spec.format)
       ELSE /\ work_wrote' = <<>>
            /\ UNCHANGED writer
    /\ work_consumed' = IF writer # NoWriter THEN n ELSE 0
    /\ UNCHANGED <<spec, bb_ret, panicked, toggles, earlier, ringVars, sdrVars,
                   avgVars, uiVars, gainVars>>
    /\ UNCHANGED <<ringHist, avgHist, callVars>>

\* BaseBandSink::work on n input items whose write_sample calls return
\* Ok: two calls per item (re, then im) while a writer is open, none
\* otherwise, and sio.input(0).consume(items) in both cases
BaseBandWork(n) ==
    /\ ~panicked
    /\ writer # NoWriter => earlier + duration(writer) + n <= MaxPairs
    /\ last' = "work"
    /\ work_in' = n
    /\ IF n > 0 /\ writer # NoWriter
       THEN /\ writer' = [writer EXCEPT !.written = @ + 2 * n]
            /\ work_wrote' = WriteCalls(1, n, spec.format)
       ELSE /\ work_wrote' = <<>>
            /\ UNCHANGED writer
    /\ work_consumed' = n
    /\ UNCHANGED <<spec, bb_ret, panicked, toggles, earlier, ringVars, sdrVars,
                   avgVars, uiVars, gainVars>>
    /\ UNCHANGED <<ringHist, avgHist, callVars>>

\* ------------------------------------------------------------------ Sdr
Freqs == 0..MaxFreq

\* limits.freq_range.contains(f)
freq_range_contains(f) == FreqLo <= f /\ f <= FreqHi

\* Sdr::new: the source block is built with the caller's center frequency
InitSdr ==
    /\ driver_freq = FreqLo
    /\ set_freq_ret = "none"

\* Sdr::set_freq(freq): the callback reaches the source block unless the
\* flowgraph has ended, its result is discarded
SetFreq(f) ==
    /\ IF freq_range_contains(f)
       THEN /\ set_freq_ret' = "FreqNotInRange"
            /\ UNCHANGED driver_freq
       ELSE /\ driver_freq' = IF panicked THEN driver_freq ELSE f
            /\ set_freq_ret' = "Ok"
    /\ last' = "set_freq"
    /\ UNCHANGED <<spec, writer, bb_ret, panicked, toggles, earlier, ringVars,
                   avgVars, uiVars, gainVars>>
    /\ work_in' = 0
    /\ work_consumed' = 0
    /\ work_wrote' = <<>>
    /\ UNCHANGED <<ringHist, avgHist, callVars>>

\* ------------------------------------------------- avg_window (sdr.rs)
RECURSIVE Gcd(_, _)
Gcd(a, b) == IF b = 0 THEN a ELSE Gcd(b, a % b)

RECURSIVE LcmUpTo(_)
LcmUpTo(n) == IF n <= 1 THEN 1 ELSE (LcmUpTo(n - 1) * n) \div Gcd(LcmUpTo(n - 1), n)

\* one unit of power: every division by a window size 1..MaxDepth is
\* exact on its multiples, so the f32 quotients are modelled without
\* rounding
Unit == LcmUpTo(MaxDepth)

PowerVals == {0, Unit}

\* the frames the psd block hands to avg_window
PowerFrames == [1..NBins -> PowerVals]

ZeroFrame == [idx \in 1..NBins |-> 0]

\* the inner loop: *sample += section[idx] / window_size as f32
RECURSIVE SumBin(_, _, _)
SumBin(w, idx, window_size) ==
    IF w = <<>> THEN 0
    ELSE (Head(w)[idx] \div window_size) + SumBin(Tail(w), idx, window_size)

\* push_front keeping one frame too many
push_front_after_evict_late(w, window_size, in_samples) ==
    <<in_samples>> \o Evict(w, window_size + 1)

\* eviction followed by window.push_front(in_samples.to_vec())
push_front_after_evict(w, window_size, in_samples) ==
    <<in_samples>> \o Evict(w, window_size)

InitAvg ==
    /\ window = <<>>
    /\ fft_avg = StartDepth
    /\ out_samples = ZeroFrame
    /\ pushes = 0
    /\ depth_const = TRUE

\* one call of the avg_window closure.  With window_size = 0 the eviction
\* loop never ends (len >= 0 always holds); the UI keeps fft_avg_num >= 1.
AvgWindowPush(in_samples) ==
    /\ sdr_on
    /\ pushes < MaxPushes
    /\ fft_avg >= 1
    /\ LET window_size == fft_avg
           w == push_front_after_evict(window, window_size, in_samples)
       IN  /\ window' = w
           /\ out_samples' = [idx \in 1..NBins |-> SumBin(w, idx, window_size)]
    /\ pushes' = pushes + 1
    /\ UNCHANGED <<fft_avg, depth_const>>
    /\ UNCHANGED <<ringVars, bbVars, sdrVars, uiVars, gainVars>>
    /\ prev_len' = Len(window)
    /\ UNCHANGED <<ringHist, workVars, callVars>>

\* Message::FftAvgChanged with a set_fft_avg that cuts the window down to
\* the new depth at once
FftAvgChangedTruncates(ammount) ==
    /\ rpc = "idle"
    /\ ~ui_panicked
    /\ ammount = 1 => fft_avg_num < MaxDepth
    /\ fft_avg_num' = IF ammount = 0
                      THEN (IF fft_avg_num > 1 THEN fft_avg_num - 1 ELSE fft_avg_num)
                      ELSE fft_avg_num + 1
    /\ IF sdr_on
       THEN /\ fft_avg' = fft_avg_num'
            /\ depth_const' = (depth_const /\ fft_avg_num' = fft_avg)
       ELSE UNCHANGED <<fft_avg, depth_const>>
    /\ window' = IF sdr_on /\ Len(window) > fft_avg_num'
                 THEN SubSeq(window, 1, fft_avg_num')
                 ELSE window
    /\ UNCHANGED <<out_samples, pushes>>
    /\ UNCHANGED <<sdr_on, recording_toggled, chart_vals, handels, height,
                   ui_panicked>>
    /\ UNCHANGED <<ringVars, bbVars, sdrVars, gainVars>>
    /\ UNCHANGED <<ringHist, avgHist, workVars, callVars>>

\* Message::FftAvgChanged decrementing down to 0
FftAvgChangedToZero(ammount) ==
    /\ rpc = "idle"
    /\ ~ui_panicked
    /\ ammount = 1 => fft_avg_num < MaxDepth
    /\ fft_avg_num' = IF ammount = 0
                      THEN (IF fft_avg_num > 0 THEN fft_avg_num - 1 ELSE fft_avg_num)
                      ELSE fft_avg_num + 1
    /\ IF sdr_on
       THEN /\ fft_avg' = fft_avg_num'
            /\ depth_const' = (depth_const /\ fft_avg_num' = fft_avg)
       ELSE UNCHANGED <<fft_avg, depth_const>>
    /\ UNCHANGED <<window, out_samples, pushes>>
    /\ UNCHANGED <<sdr_on, recording_toggled, chart_vals, handels, height,
                   ui_panicked>>
    /\ UNCHANGED <<ringVars, bbVars, sdrVars, gainVars>>
    /\ UNCHANGED <<ringHist, avgHist, workVars, callVars>>

\* Message::FftAvgChanged: 0 decrements down to 1, 1 increments; the new
\* value is stored into fft_avg when a device is open (Sdr::set_fft_avg)
FftAvgChanged(ammount) ==
    /\ rpc = "idle"
    /\ ~ui_panicked
    /\ ammount = 1 => fft_avg_num < MaxDepth
    /\ fft_avg_num' = IF ammount = 0
                      THEN (IF fft_avg_num > 1 THEN fft_avg_num - 1 ELSE fft_avg_num)
                      ELSE fft_avg_num + 1
    /\ IF sdr_on
       THEN /\ fft_avg' = fft_avg_num'
            /\ depth_const' = (depth_const /\ fft_avg_num' = fft_avg)
       ELSE UNCHANGED <<fft_avg, depth_const>>
    /\ UNCHANGED <<window, out_samples, pushes>>
    /\ UNCHANGED <<sdr_on, recording_toggled, chart_vals, handels, height,
                   ui_panicked>>
    /\ UNCHANGED <<ringVars, bbVars, sdrVars, gainVars>>
    /\ UNCHANGED <<ringHist, avgHist, workVars, callVars>>


\* ------------------------------------------------------- gain (sdr.rs)
\* the divisor of gain_percent in Sdr::new and Sdr::set_gain; gains are
\* kept multiplied by it so that the target is an integer
GainScale == 1000

\* seify::RangeItem
Interval(a, b) == [kind |-> "Interval", start |-> a, stop |-> b, step |-> 0]
Value(v) == [kind |-> "Value", start |-> v, stop |-> v, step |-> 0]
Step(a, b, st) == [kind |-> "Step", start |-> a, stop |-> b, step |-> st]

GainItems ==
    {Interval(q[1], q[2]) :
        q \in {q \in (0..MaxGain) \X (0..MaxGain) : q[1] < q[2]}}
    \cup {Value(v) : v \in 0..MaxGain}
    \cup {Step(0, MaxGain, 1), Step(1, 1 + 2 * ((MaxGain - 1) \div 2), 2),
          Step(0, 2, 2)}

\* the non-empty gain ranges a device advertises
GainRanges == {<<x>> : x \in GainItems} \cup (GainItems \X GainItems)

\* the values the gain slider is sampled at
GainReqs == {k * (GainScale \div GainSteps) : k \in 0..GainSteps}

Max(a, b) == IF a >= b THEN a ELSE b

Abs(a) == IF a < 0 THEN -a ELSE a

\* get_max_gain: the fold starts at 0.0 and takes the stop of every
\* Interval and Step and the value of every Value
RECURSIVE get_max_gain(_)
get_max_gain(r) ==
    IF r = <<>> THEN 0
    ELSE LET rest == get_max_gain(SubSeq(r, 1, Len(r) - 1))
         IN  Max(rest, r[Len(r)].stop)

\* Range::contains on one item, for a value t given times GainScale
item_contains(x, t) ==
    CASE x.kind = "Interval" -> x.start * GainScale <= t /\ t <= x.stop * GainScale
      [] x.kind = "Value" -> t = x.start * GainScale
      [] OTHER -> /\ x.start * GainScale <= t
                  /\ t <= x.stop * GainScale
                  /\ (t - x.start * GainScale) % (x.step * GainScale) = 0

range_contains(r, t) == \E i \in 1..Len(r) : item_contains(r[i], t)

\* closer of Range::closest: a later candidate wins only when strictly
\* nearer; -1 stands for None
closer(t, close, current) ==
    IF close = -1 THEN current
    ELSE IF Abs(t - current) < Abs(t - close) THEN current ELSE close

\* the candidates one item contributes to Range::closest, in order
candidates(x, t) ==
    CASE x.kind = "Interval" -> <<x.start * GainScale, x.stop * GainScale>>
      [] x.kind = "Value" -> <<x.start * GainScale>>
      [] OTHER ->
           IF t <= x.start * GainScale THEN <<x.start * GainScale>>
           ELSE IF t >= x.stop * GainScale THEN <<x.stop * GainScale>>
           ELSE LET st == x.step * GainScale
                    v == x.start * GainScale + ((t - x.start * GainScale) \div st) * st
                IN  IF v + st <= x.stop * GainScale THEN <<v, v + st>> ELSE <<v>>

RECURSIVE fold_closer(_, _, _)
fold_closer(t, close, cs) ==
    IF cs = <<>> THEN close
    ELSE fold_closer(t, closer(t, close, Head(cs)), Tail(cs))

RECURSIVE closest_from(_, _, _)
closest_from(r, t, close) ==
    IF r = <<>> THEN close
    ELSE closest_from(Tail(r), t, fold_closer(t, close, candidates(Head(r), t)))

\* Range::closest(t): t itself when the range contains it
closest(r, t) == IF range_contains(r, t) THEN t ELSE closest_from(r, t, -1)

\* the argument of closest with gain_percent divided by 100
gain_target_percent(r, gain_percent) ==
    (gain_percent * get_max_gain(r) * GainScale) \div 100

\* (gain_percent / 1000.0) * get_max_gain(&limits), times GainScale
gain_target(r, gain_percent) ==
    (gain_percent * get_max_gain(r) * GainScale) \div GainScale

\* the gain Sdr::new and Sdr::set_gain hand to the source block
closest_gain(r, gain_percent) == closest(r, gain_target(r, gain_percent))

\* the device the other parts of the model run on
DefaultGainRange == <<Interval(0, MaxGain)>>

InitGain ==
    /\ gain_range = DefaultGainRange
    /\ gain = 0
    /\ device_gain = closest_gain(gain_range, gain)

\* the same with any of the devices
InitGainAny ==
    /\ gain_range \in GainRanges
    /\ gain = 0
    /\ device_gain = closest_gain(gain_range, gain)

\* Message::ChangeGain(new_gain): the callback reaches the source block
\* unless the flowgraph has ended, its result is discarded
ChangeGain(new_gain) ==
    /\ rpc = "idle"
    /\ ~ui_panicked
    /\ gain' = new_gain
    /\ device_gain' = IF sdr_on /\ ~panicked
                      THEN closest_gain(gain_range, new_gain)
                      ELSE device_gain
    /\ UNCHANGED gain_range
    /\ UNCHANGED <<ringVars, bbVars, sdrVars, avgVars, uiVars>>
    /\ UNCHANGED <<ringHist, avgHist, workVars, callVars>>

\* -------------------------------------------------- RustcSdrSate (main.rs)
\* the state `update` works on once the first Message::ToggleSdr has
\* opened a device and the window has been laid out
InitUi ==
    /\ sdr_on = TRUE
    /\ recording_toggled = FALSE
    /\ fft_avg_num = StartDepth
    /\ chart_vals = [i \in 1..buffer_size |-> 0]
    /\ handels = <<>>
    /\ height = 1
    /\ ui_panicked = FALSE
    /\ sammple_rate_val = 1

\* the same state when no Resized event has arrived since
\* RustcSdrSate::new: WaterFall::new leaves height at 0
InitUiNew ==
    /\ sdr_on = TRUE
    /\ recording_toggled = FALSE
    /\ fft_avg_num = StartDepth
    /\ chart_vals = [i \in 1..buffer_size |-> 0]
    /\ handels = <<>>
    /\ height = 0
    /\ ui_panicked = FALSE
    /\ sammple_rate_val = 1

\* Message::WindowResize((_width, height)): waterfall.height = height; the
\* lines held are left as they are
WindowResize(new_height) ==
    /\ rpc = "idle"
    /\ ~ui_panicked
    /\ height' = new_height
    /\ UNCHANGED <<tail_state, slots, holder, filled, wpc, items, offset,
                   total_items, consumed, lease, wtarget, frame_slots, rpc,
                   rtail, rres, polls, r_at>>
    /\ UNCHANGED <<sdr_on, recording_toggled, fft_avg_num, chart_vals,
                   handels, ui_panicked>>
    /\ UNCHANGED <<bbVars, sdrVars, avgVars, gainVars>>
    /\ UNCHANGED <<ringHist, avgHist, workVars, callVars>>

\* a callback is in flight: `update` is blocked in block_on until the
\* handler has returned or the flowgraph has ended
Pending == Pmt("Pending", 0)

Returned == bb_ret # Pending \/ panicked

\* the BaseBandSpec every toggle_recording of `update` passes: format i16,
\* sample_rate sammple_rate_val
UiSpec == [format |-> "i16", sample_rate |-> sammple_rate_val]

\* Pmt::Any(Box::new(spec)), the message toggle_recording sends first
SpecMsg(sp) == [any |-> TRUE, val |-> sp]

\* nothing has been displayed, leased, pushed or written yet
InitHist ==
    /\ r_seen = 0
    /\ lease_failed = FALSE
    /\ prev_len = 0
    /\ work_in = 0
    /\ work_consumed = 0
    /\ work_wrote = <<>>
    /\ call_spec = DefaultSpec

\* Sdr::toggle_recording sending the toggle message without the spec
\* message before it
toggle_recording_no_spec(sp) ==
    /\ rpc = "idle"
    /\ sdr_on
    /\ panicked \/ toggles < MaxToggles
    /\ call_spec' = sp
    /\ rpc' = "rec_toggle"
    /\ bb_ret' = Pending
    /\ UNCHANGED <<tail_state, slots, holder, filled, wpc, items, offset,
                   total_items, consumed, lease, wtarget, frame_slots, rtail,
                   rres, polls, r_at>>
    /\ UNCHANGED <<spec, writer, panicked, last, toggles, earlier>>
    /\ UNCHANGED <<sdrVars, avgVars, uiVars, gainVars>>
    /\ UNCHANGED <<ringHist, avgHist, workVars, sammple_rate_val>>

\* Sdr::toggle_recording(spec, freq) down to its first callback: the spec
\* is sent to the spec port
toggle_recording(sp) ==
    /\ rpc = "idle"
    /\ sdr_on
    /\ panicked \/ toggles < MaxToggles
    /\ call_spec' = sp
    /\ rpc' = "rec_spec"
    /\ bb_ret' = Pending
    /\ UNCHANGED <<tail_state, slots, holder, filled, wpc, items, offset,
                   total_items, consumed, lease, wtarget, frame_slots, rtail,
                   rres, polls, r_at>>
    /\ UNCHANGED <<spec, writer, panicked, last, toggles, earlier>>
    /\ UNCHANGED <<sdrVars, avgVars, uiVars, gainVars>>
    /\ UNCHANGED <<ringHist, avgHist, workVars, sammple_rate_val>>

\* Message::ToggleRecord(toggle) with a device open, down to the first
\* callback of Sdr::toggle_recording.  The toggler widget sends the
\* negation of recording.toggled.
ToggleRecord ==
    /\ ~ui_panicked
    /\ toggle_recording(UiSpec)

\* Message::SammpleRate(new_rate): the rate changes only while no device
\* is running
SammpleRate(new_rate) ==
    /\ rpc = "idle"
    /\ ~ui_panicked
    /\ ~sdr_on
    /\ sammple_rate_val' = new_rate
    /\ UNCHANGED <<ringVars, bbVars, sdrVars, avgVars, uiVars, gainVars>>
    /\ UNCHANGED <<ringHist, avgHist, workVars, call_spec>>

\* Sdr::toggle_recording: the first callback is over, the second one (the
\* toggle port) is sent
ToggleRecordingSecond ==
    /\ rpc \in {"rec_spec", "off_spec"}
    /\ Returned
    /\ rpc' = IF rpc = "rec_spec" THEN "rec_toggle" ELSE "off_toggle"
    /\ bb_ret' = Pending
    /\ UNCHANGED <<tail_state, slots, holder, filled, wpc, items, offset,
                   total_items, consumed, lease, wtarget, frame_slots, rtail,
                   rres, polls, r_at>>
    /\ UNCHANGED <<spec, writer, panicked, last, toggles, earlier>>
    /\ UNCHANGED <<sdrVars, avgVars, uiVars, gainVars>>
    /\ UNCHANGED <<ringHist, avgHist, workVars, callVars>>

\* Message::ToggleRecord after toggle_recording: recording.toggled = toggle
ToggleRecordEnd ==
    /\ rpc = "rec_toggle"
    /\ Returned
    /\ recording_toggled' = ~recording_toggled
    /\ rpc' = "idle"
    /\ UNCHANGED <<tail_state, slots, holder, filled, wpc, items, offset,
                   total_items, consumed, lease, wtarget, frame_slots, rtail,
                   rres, polls, r_at>>
    /\ UNCHANGED <<sdr_on, fft_avg_num, chart_vals, handels, height,
                   ui_panicked>>
    /\ UNCHANGED <<bbVars, sdrVars, avgVars, gainVars>>
    /\ UNCHANGED <<ringHist, avgHist, workVars, callVars>>

\* Message::Tick with recording.toggled: the duration callback is sent
TickDurationCall ==
    /\ rpc = "dur"
    /\ rpc' = "wait_dur"
    /\ bb_ret' = Pending
    /\ UNCHANGED <<tail_state, slots, holder, filled, wpc, items, offset,
                   total_items, consumed, lease, wtarget, frame_slots, rtail,
                   rres, polls, r_at>>
    /\ UNCHANGED <<spec, writer, panicked, last, toggles, earlier>>
    /\ UNCHANGED <<sdrVars, avgVars, uiVars, gainVars>>
    /\ UNCHANGED <<ringHist, avgHist, workVars, callVars>>

\* Message::Tick: dev.get_record_duration().unwrap() panics when the
\* callback has failed
TickDurationRet ==
    /\ rpc = "wait_dur"
    /\ Returned
    /\ ui_panicked' = (bb_ret = Pending)
    /\ rpc' = "idle"
    /\ UNCHANGED <<tail_state, slots, holder, filled, wpc, items, offset,
                   total_items, consumed, lease, wtarget, frame_slots, rtail,
                   rres, polls, r_at>>
    /\ UNCHANGED <<sdr_on, recording_toggled, fft_avg_num, chart_vals,
                   handels, height>>
    /\ UNCHANGED <<bbVars, sdrVars, avgVars, gainVars>>
    /\ UNCHANGED <<ringHist, avgHist, workVars, callVars>>

\* Sdr::new(.., self.gain, self.fft_avg_num): a fresh flowgraph
SdrNew ==
    /\ tail_state' = 0
    /\ slots' = [s \in Slots |-> [i \in 1..buffer_size |-> 0]]
    /\ holder' = [s \in Slots |-> "free"]
    /\ filled' = 0
    /\ wpc' = "idle"
    /\ items' = 0
    /\ offset' = 0
    /\ total_items' = 0
    /\ consumed' = 0
    /\ lease' = 0
    /\ wtarget' = 0
    /\ frame_slots' = {}
    /\ rtail' = 0
    /\ rres' = "none"
    /\ polls' = 0
    /\ r_at' = -1
    /\ spec' = DefaultSpec
    /\ writer' = NoWriter
    /\ bb_ret' = Pmt("none", 0)
    /\ panicked' = FALSE
    /\ last' = "new"
    /\ toggles' = 0
    /\ earlier' = 0
    /\ driver_freq' = FreqLo
    /\ set_freq_ret' = "none"
    /\ window' = <<>>
    /\ fft_avg' = fft_avg_num
    /\ out_samples' = ZeroFrame
    /\ pushes' = 0
    /\ depth_const' = TRUE
    /\ device_gain' = closest_gain(gain_range, gain)
    /\ UNCHANGED <<gain_range, gain>>
    /\ r_seen' = 0
    /\ lease_failed' = FALSE
    /\ prev_len' = 0
    /\ work_in' = 0
    /\ work_consumed' = 0
    /\ work_wrote' = <<>>
    /\ UNCHANGED callVars

\* Message::ToggleSdr going straight to `self.sdr = None` while recording
ToggleSdrNoStop ==
    /\ rpc = "idle"
    /\ ~ui_panicked
    /\ sdr_on /\ recording_toggled => panicked \/ toggles < MaxToggles
    /\ IF sdr_on
       THEN /\ rpc' = "off_drop"
            /\ UNCHANGED <<tail_state, slots, holder, filled, wpc, items, offset,
                           total_items, consumed, lease, wtarget, frame_slots,
                           rtail, rres, polls, r_at>>
            /\ UNCHANGED <<bbVars, sdrVars, avgVars, gainVars>>
            /\ UNCHANGED <<ringHist, avgHist, workVars, callVars>>
            /\ UNCHANGED sdr_on
       ELSE /\ SdrNew
            /\ sdr_on' = TRUE
            /\ rpc' = "idle"
    /\ UNCHANGED <<recording_toggled, fft_avg_num, chart_vals, handels, height,
                   ui_panicked>>

\* Message::ToggleSdr(toggle).  With a device open: while recording, the
\* first callback of toggle_recording is sent; otherwise `update` goes on
\* to `self.sdr = None`.  With no device: Sdr::new.
ToggleSdr ==
    /\ rpc = "idle"
    /\ ~ui_panicked
    /\ sdr_on /\ recording_toggled => panicked \/ toggles < MaxToggles
    /\ IF sdr_on
       THEN /\ rpc' = IF recording_toggled THEN "off_spec" ELSE "off_drop"
            /\ bb_ret' = IF recording_toggled THEN Pending ELSE bb_ret
            /\ UNCHANGED <<tail_state, slots, holder, filled, wpc, items, offset,
                           total_items, consumed, lease, wtarget, frame_slots,
                           rtail, rres, polls, r_at>>
            /\ UNCHANGED <<spec, writer, panicked, last, toggles, earlier>>
            /\ UNCHANGED <<sdrVars, avgVars, gainVars>>
            /\ call_spec' = IF recording_toggled THEN UiSpec ELSE call_spec
            /\ UNCHANGED <<ringHist, avgHist, workVars, sammple_rate_val>>
            /\ UNCHANGED sdr_on
       ELSE /\ SdrNew
            /\ sdr_on' = TRUE
            /\ rpc' = "idle"
    /\ UNCHANGED <<recording_toggled, fft_avg_num, chart_vals, handels, height,
                   ui_panicked>>

\* Message::ToggleSdr after toggle_recording: recording.toggled = false
ToggleSdrStopped ==
    /\ rpc = "off_toggle"
    /\ Returned
    /\ recording_toggled' = FALSE
    /\ rpc' = "off_drop"
    /\ UNCHANGED <<tail_state, slots, holder, filled, wpc, items, offset,
                   total_items, consumed, lease, wtarget, frame_slots, rtail,
                   rres, polls, r_at>>
    /\ UNCHANGED <<sdr_on, fft_avg_num, chart_vals, handels, height,
                   ui_panicked>>
    /\ UNCHANGED <<bbVars, sdrVars, avgVars, gainVars>>
    /\ UNCHANGED <<ringHist, avgHist, workVars, callVars>>

\* Message::ToggleSdr: `self.sdr = None` drops the Sdr, whose Drop ends
\* the flowgraph with terminate_and_wait
SdrDrop ==
    /\ rpc = "off_drop"
    /\ sdr_on' = FALSE
    /\ rpc' = "idle"
    /\ UNCHANGED <<tail_state, slots, holder, filled, wpc, items, offset,
                   total_items, consumed, lease, wtarget, frame_slots, rtail,
                   rres, polls, r_at>>
    /\ UNCHANGED <<recording_toggled, fft_avg_num, chart_vals, handels, height,
                   ui_panicked>>
    /\ UNCHANGED <<bbVars, sdrVars, avgVars, gainVars>>
    /\ UNCHANGED <<ringHist, avgHist, workVars, callVars>>

Init ==
    InitRing /\ InitBB /\ InitSdr /\ InitAvg /\ InitUi /\ InitGain /\ InitHist

Next ==
    \/ \E n \in 0..MaxBatch : WorkBegin(n)
    \/ GetLeaseTry
    \/ GetLeaseLock
    \/ StoreTail
    \/ DropLease
    \/ Fill
    \/ GetLoad
    \/ GetTryLock
    \/ DropGuard

Spec == Init /\ [][Next]_vars

\* the ring and the Tick of a UI whose window has not been resized yet
InitTick ==
    InitRing /\ InitBB /\ InitSdr /\ InitAvg /\ InitUiNew /\ InitGain /\ InitHist

NextTick ==
    \/ Next
    \/ \E new_height \in 0..MaxHeight : WindowResize(new_height)

SpecTick == InitTick /\ [][NextTick]_vars

\* the steps of the flowgraph thread inside TailSink::work
WriterNext ==
    \/ GetLeaseTry
    \/ GetLeaseLock
    \/ StoreTail
    \/ DropLease
    \/ Fill

\* the flowgraph thread keeps being scheduled while a work call is under
\* way; nothing is assumed of the reader, which may keep its guard for ever
\* or never poll
SpecWriterFair == Init /\ [][Next]_vars /\ WF_vars(WriterNext)

\* the control path: the message handlers and work of the BaseBandSink
\* block, and Sdr::set_freq
NextCtl ==
    \/ \E f \in Freqs, ok \in BOOLEAN : ToggleHandler(f, ok)
    \/ \E p \in SpecMsgs : SpecHandler(p)
    \/ DurationHandler
    \/ \E n \in 0..MaxBatch : BaseBandWork(n)

SpecCtl == Init /\ [][NextCtl]_vars

\* ------------------------------------------------------------- claims

\* the averaging window under the UI's depth changes and device restarts
NextAvg ==
    \/ \E in_samples \in PowerFrames : AvgWindowPush(in_samples)
    \/ \E ammount \in {0, 1} : FftAvgChanged(ammount)
    \/ ToggleSdr
    \/ SdrDrop

SpecAvg == Init /\ [][NextAvg]_vars

\* the gain requests of the UI on any of the devices
InitAny ==
    InitRing /\ InitBB /\ InitSdr /\ InitAvg /\ InitUi /\ InitGainAny /\ InitHist

NextGain ==
    \/ \E new_gain \in GainReqs : ChangeGain(new_gain)
    \/ (sdr_on /\ \E f \in Freqs : SetFreq(f))
    \/ ToggleSdr
    \/ SdrDrop

SpecGain == InitAny /\ [][NextGain]_vars

\* the UI thread's `update` and the BaseBandSink block serving its
\* callbacks on the flowgraph thread
NextUi ==
    \/ ToggleRecord
    \/ ToggleRecordingSecond
    \/ ToggleRecordEnd
    \/ ToggleSdr
    \/ ToggleSdrStopped
    \/ SdrDrop
    \/ GetLoad
    \/ GetTryLock
    \/ TickDurationCall
    \/ TickDurationRet
    \/ (rpc \in {"rec_spec", "off_spec"} /\ bb_ret = Pending
            /\ SpecHandler(SpecMsg(call_spec)))
    \/ (rpc \in {"rec_toggle", "off_toggle"} /\ bb_ret = Pending
            /\ \E create_ok \in BOOLEAN : ToggleHandler(FreqLo, create_ok))
    \/ (rpc = "wait_dur" /\ bb_ret = Pending /\ DurationHandler)
    \/ (sdr_on /\ \E n \in 0..1 : BaseBandWork(n))
    \/ (rpc = "idle" /\ ~ui_panicked /\ sdr_on /\ \E f \in Freqs : SetFreq(f))
    \/ \E new_rate \in 1..MaxRate : SammpleRate(new_rate)

SpecUi == Init /\ [][NextUi]_vars

\* a client of Sdr starting and stopping recordings with any spec
NextRec ==
    \/ \E sp \in Specs : toggle_recording(sp)
    \/ ToggleRecordingSecond
    \/ ToggleRecordEnd
    \/ (rpc = "rec_spec" /\ bb_ret = Pending
            /\ SpecHandler(SpecMsg(call_spec)))
    \/ (rpc = "rec_toggle" /\ bb_ret = Pending
            /\ \E create_ok \in BOOLEAN : ToggleHandler(FreqLo, create_ok))
    \/ \E n \in 0..1 : BaseBandWork(n)

SpecRec == Init /\ [][NextRec]_vars

\* C1: every successful get returns a slot whose buffer_size elements all
\* belong to one and the same frame; the reader never gets a slot that is
\* partly written or that mixes two frames
C1_GetReturnsCompleteFrame ==
    rpc = "hold" => Complete(slots[rtail])

\* C2: every blocking lock() that get_lease falls back to is taken on a
\* slot the reader does not hold, so the writer never waits for the reader:
\* every work call runs to its end, whatever the reader does
C2_WriterNeverWaitsForReader ==
    /\ [](wpc \in {"lock1", "lock2"} => holder[wtarget] = "free")
    /\ (wpc # "idle" ~> wpc = "idle")

\* the writer is at a blocking lock() after a failed try_lock, while the
\* reader holds a guard
C2_Witness ==
    /\ wpc \in {"lock1", "lock2"}
    /\ tail_state # 0
    /\ \E s \in Slots : holder[s] = "reader"

\* C3: get never waits: its only lock operation is a try_lock on the slot
\* named by the value it loaded; it returns a guard on that slot on success
\* and fails when the value is 0 or the slot is locked by the writer
C3_GetNeverWaits ==
    /\ [](rpc = "try" => ENABLED GetTryLock)
    /\ [][(rpc = "try" /\ rpc' # "try") =>
            IF rtail = 0 \/ holder[rtail] = "writer"
            THEN rres' = "err" /\ rpc' = "idle" /\ holder' = holder
            ELSE /\ rres' = "ok"
                 /\ rpc' = "hold"
                 /\ holder' = [holder EXCEPT ![rtail] = "reader"]]_vars

\* a get has failed on a published slot that the writer had locked
C3_Witness ==
    /\ rres = "err"
    /\ rtail # 0
    /\ rpc = "idle"

\* C4: when the writer has delivered k complete frames and the reader has
\* never polled, the first get (made while work is not running) succeeds
\* and returns frame k
C4_FirstGetReturnsNewestFrame ==
    (/\ polls = 1
     /\ wpc = "idle"
     /\ r_at = consumed
     /\ r_at >= buffer_size
     /\ (rres = "err" \/ rpc = "hold"))
    => (rpc = "hold" /\ slots[rtail] = Frame(r_at \div buffer_size))

\* C5: the current indicator addresses one of the three slots and that
\* slot holds a complete frame (stated for the states from the first store
\* on; before it tail_state is 0 and addresses no slot)
C5_CurrentSlotComplete ==
    tail_state # 0 => (tail_state \in Slots /\ Complete(slots[tail_state]))

\* C6: set_freq(f) with f outside the advertised range returns
\* FreqNotInRange and sends nothing to the driver; with f inside the range
\* it sends f to the driver and returns success
C6_SetFreqChecksRange ==
    [][\A f \in Freqs : SetFreq(f) =>
          IF freq_range_contains(f)
          THEN set_freq_ret' = "Ok" /\ driver_freq' = f
          ELSE set_freq_ret' = "FreqNotInRange" /\ driver_freq' = driver_freq]_vars

C8_DurationZero ==
    (last = "duration" /\ (writer = NoWriter \/ duration(writer) = 0))
    => (~panicked /\ bb_ret = Pmt("F32", 0))

\* C9: while Recording, the duration query returns the number of I/Q pairs
\* written in this session divided by the session's sample rate (stated for
\* a session whose spec is the one it was opened with, sample rate above 0)
C9_DurationIsPairsOverRate ==
    (/\ last = "duration"
     /\ writer # NoWriter
     /\ spec.sample_rate > 0
     /\ spec.sample_rate = writer.sample_rate)
    => (~panicked /\ bb_ret.tag = "F32"
        /\ bb_ret.val * writer.sample_rate = duration(writer))

\* C10: from the start toggle to the stop toggle no message changes the
\* spec that work and the duration query use
C10_SpecFixedWhileRecording ==
    [][(writer # NoWriter /\ writer' # NoWriter) => spec' = spec]_vars

\* C11: when the output file cannot be created on a start toggle, the
\* session stays Idle and the block keeps running: nothing panics
C11_CreateFailureKeepsRunning ==
    [][\A f \in Freqs : (writer = NoWriter /\ ToggleHandler(f, FALSE)) =>
          (~panicked' /\ writer' = NoWriter)]_vars

\* C19: every store to the current indicator names the slot into which the
\* writer wrote all buffer_size items of the frame it has just completed
C19_StoreNamesCompletedSlot ==
    wpc = "store" =>
        /\ frame_slots = {lease}
        /\ slots[lease] = Frame((consumed + offset) \div buffer_size)

\* C20: every lease returned by get_lease is on a slot other than the one
\* the current indicator names at that moment, and every item is written
\* into a slot that is not current at the time of the write
C20_WriterAvoidsCurrentSlot ==
    /\ [](wpc = "fill" => (lease \in Slots /\ lease # tail_state))
    /\ [][(lease' # lease /\ lease' # 0) =>
            (lease' \in Slots /\ lease' # tail_state')]_vars

\* the writer is about to write into the fall-back slot, taken because the
\* reader holds the slot get_lease tried first
C20_Witness ==
    /\ wpc = "fill"
    /\ tail_state # 0
    /\ lease = get_lease_lock(tail_state)
    /\ holder[get_lease_try(tail_state)] = "reader"

\* C12: after k pushes into an averaging window whose depth has been one
\* value D >= 1 since the window was made, the window holds min(k, D) frames
C12_WindowLenIsMin ==
    depth_const => Len(window) = Min(pushes, fft_avg)

\* more frames have been pushed than a depth of two or more holds
C12_Witness ==
    /\ depth_const
    /\ fft_avg >= 2
    /\ pushes > fft_avg
    /\ Len(window) = fft_avg

\* C13: after every push the output at each bin is the arithmetic mean of
\* that bin over the frames held: their sum divided by their number
C13_OutputIsMeanOfHeld ==
    pushes > 0 =>
        \A idx \in 1..NBins :
            out_samples[idx] * Len(window) = SumBin(window, idx, 1)

\* C14 as stated: the window never holds more frames than the depth
C14_LenAtMostDepthAlways == Len(window) <= fft_avg

\* C14: right after every push the window holds at most D frames, D being
\* the depth that push read, and between pushes the window keeps its frames
C14_LenAtMostDepthAfterPush ==
    /\ [][pushes' = pushes + 1 => Len(window') <= fft_avg']_vars
    /\ [][pushes' = pushes => window' = window]_vars

\* a push has run after the depth was lowered below the number of frames
\* the window could hold before
C14_Witness ==
    /\ ~depth_const
    /\ fft_avg < StartDepth
    /\ pushes = MaxPushes
    /\ Len(window) = fft_avg

\* C18 as stated: the device receives the valid point of its gain range
\* nearest to gain_percent hundredths of the range's maximum gain
C18_GainNearestToPercentOfMax ==
    sdr_on =>
        LET t == (gain * get_max_gain(gain_range) * GainScale) \div 100
            points(x) ==
                IF x.kind = "Step"
                THEN {(x.start + k * x.step) * GainScale :
                          k \in 0..((x.stop - x.start) \div x.step)}
                ELSE {x.start * GainScale, x.stop * GainScale}
                         \cup (IF item_contains(x, t) THEN {t} ELSE {})
        IN  /\ range_contains(gain_range, device_gain)
            /\ \A i \in 1..Len(gain_range) : \A v \in points(gain_range[i]) :
                   Abs(device_gain - t) <= Abs(v - t)

\* C18: for a gain request g on the slider's scale 0..1000, the device
\* receives the valid point of its gain range nearest to g thousandths of
\* the range's maximum gain, never a value outside the range
C18_GainNearestToSliderShareOfMax ==
    sdr_on =>
        LET t == gain * get_max_gain(gain_range)
            points(x) ==
                IF x.kind = "Step"
                THEN {(x.start + k * x.step) * GainScale :
                          k \in 0..((x.stop - x.start) \div x.step)}
                ELSE {x.start * GainScale, x.stop * GainScale}
                         \cup (IF item_contains(x, t) THEN {t} ELSE {})
        IN  /\ range_contains(gain_range, device_gain)
            /\ \A i \in 1..Len(gain_range) : \A v \in points(gain_range[i]) :
                   Abs(device_gain - t) <= Abs(v - t)

\* a request whose target the range does not contain: the device was given
\* another value, between two items of the range or at its lower end
C18_Witness ==
    /\ sdr_on
    /\ gain > 0
    /\ Len(gain_range) = 2
    /\ ~range_contains(gain_range, gain * get_max_gain(gain_range))
    /\ device_gain # gain * get_max_gain(gain_range)

C17_NoPanicAfterExit ==
    [][panicked => ~ui_panicked']_vars

\* ------------------------------------------------------------------ C21
\* C21: the samples successive successful get calls return never go
\* backwards: the sample the reader is about to copy is never older than one
\* it has already displayed.
C21_FramesNeverGoBack ==
    (rpc = "hold" /\ Complete(slots[rtail]))
        => slots[rtail][buffer_size] >= r_seen

\* ------------------------------------------------------------------ C22
\* C22: as long as every try_lock of get_lease has succeeded, the writer
\* uses the slots in the order a, b, c, a, ...: frame j (counted from 0) is
\* filled in slot (j mod 3) + 1 and in no other slot, and each store to
\* tail_state names the slot that holds the frame completed last.
C22_CyclicWithoutContention ==
    ~lease_failed =>
        LET written == consumed + offset
            j == written \div buffer_size
        IN  /\ wpc = "fill" => lease = (j % 3) + 1
            /\ wpc = "store" =>
                   /\ written = j * buffer_size
                   /\ lease = ((j - 1) % 3) + 1
                   /\ frame_slots = {lease}
                   /\ slots[lease] = Frame(j)
            /\ tail_state # 0 => Complete(slots[tail_state])

\* the writer is about to publish slot a for the second time, the reader has
\* polled meanwhile, and no try_lock has failed
C22_Witness ==
    /\ ~lease_failed
    /\ wpc = "store"
    /\ tail_state = 3
    /\ lease = 1
    /\ polls > 0

\* ------------------------------------------------------------------ C23
\* C23: whenever a toggle_recording call opens the output, the file is
\* created from the spec passed in that same call: its sample rate, bit
\* depth and sample format are those of call_spec, whatever an earlier call
\* passed and whatever the default spec is.
C23_StartUsesSpecOfCall ==
    [][(writer = NoWriter /\ writer' # NoWriter)
          => (rpc = "rec_toggle" /\ writer' = CreateWriter(call_spec))]_vars

\* the second start of a flowgraph has opened an f32 file at the highest
\* rate, as its call asked
C23_Witness ==
    /\ writer # NoWriter
    /\ toggles = 3
    /\ rpc = "rec_toggle"
    /\ call_spec = [format |-> "f32", sample_rate |-> MaxRate]
    /\ writer = CreateWriter(call_spec)

\* ------------------------------------------------------------------ C24
\* C24: a depth change leaves the window, the output and the push count as
\* they are, and the push that follows, reading depth D2, leaves
\* min(previous length + 1, D2) frames in the window.
C24_DepthChangeActsOnNextPush ==
    [][/\ fft_avg_num' # fft_avg_num =>
              (window' = window /\ out_samples' = out_samples
                  /\ pushes' = pushes)
       /\ pushes' = pushes + 1 =>
              Len(window') = Min(Len(window) + 1, fft_avg)]_vars

\* the depth was raised to the largest value and a push has grown the
\* window to it
C24_Witness ==
    /\ ~depth_const
    /\ fft_avg = MaxDepth
    /\ fft_avg > StartDepth
    /\ prev_len = MaxDepth - 1
    /\ Len(window) = MaxDepth

\* ------------------------------------------------------------------ C25
\* C25 as stated: no push leaves the window more than one frame shorter
\* than it found it
C25_ShrinksOneFramePerPush ==
    [][pushes' = pushes + 1 => Len(window') >= Len(window) - 1]_vars

\* C25: a push that finds at least D frames in the window, D being the depth
\* it reads, leaves exactly D frames, however many it found: the window is
\* cut down to the lowered depth by the first push after the change.
C25_ShrinksToDepthInOnePush ==
    [][(pushes' = pushes + 1 /\ Len(window) >= fft_avg)
          => Len(window') = fft_avg]_vars

\* a single push has made the window two or more frames shorter
C25_Witness ==
    /\ pushes > 0
    /\ Len(window) = fft_avg
    /\ prev_len - Len(window) >= 2

C27_LeftoversDropped ==
    (wpc = "fill" /\ offset = 0) => filled = 0

\* C27: no item is dropped between work calls: the items handed to work so
\* far are cut into frames at the multiples of buffer_size of the whole
\* stream, wherever the calls end, because a call ending with a partly
\* filled frame leaves `filled` as it is and the next call goes on at that
\* index.
C27_LeftoversCarriedOver ==
    LET written == IF wpc = "idle" THEN consumed ELSE consumed + offset
    IN  /\ filled \in 0..buffer_size
        /\ written % buffer_size = filled % buffer_size
        /\ (wpc = "fill" /\ offset = 0) => filled = consumed % buffer_size

\* a frame made of items of two work calls is complete and about to be
\* published
C27_Witness ==
    /\ wpc = "store"
    /\ 0 < offset
    /\ offset < buffer_size
    /\ consumed > 0
    /\ slots[lease] = Frame((consumed + offset) \div buffer_size)

\* ------------------------------------------------------------------ C28
\* C28: every work call ends, whatever its number of items, and has then
\* consumed exactly the items it was given: the fill counts add up to the
\* input length, and every pass copies the next to_fill items of the input,
\* in input order, each item once.
C28_WorkEndsHavingWrittenEachItemOnce ==
    /\ [](items \in 0..total_items /\ offset + items = total_items)
    /\ [][offset' > offset =>
              /\ wpc = "fill"
              /\ offset' - offset = items - items'
              /\ \A j \in 1..(offset' - offset) :
                    slots'[lease][filled + j] = consumed + offset + j]_vars
    /\ [][(wpc # "idle" /\ wpc' = "idle") =>
              (offset' = total_items /\ consumed' = consumed + total_items)]_vars
    /\ (wpc # "idle" ~> wpc = "idle")

\* a call of the largest batch has ended after more than one pass
C28_Witness ==
    /\ wpc = "idle"
    /\ total_items = MaxBatch
    /\ offset = MaxBatch
    /\ consumed >= 2 * MaxBatch
    /\ MaxBatch > buffer_size

\* ------------------------------------------------------------------ C29
\* C29: filled stays within 0..buffer_size, and in every pass of work the
\* highest index written, filled + to_fill - 1, is below buffer_size and
\* the input slice offset..offset + to_fill ends within the input.
C29_FillStaysInBounds ==
    /\ filled \in 0..buffer_size
    /\ wpc = "fill" =>
          /\ to_fill(filled, items) >= 1
          /\ filled + to_fill(filled, items) <= buffer_size
          /\ offset + to_fill(filled, items) <= total_items

\* a pass is about to fill the rest of a frame begun by an earlier call,
\* with more items left than the frame has room for
C29_Witness ==
    /\ wpc = "fill"
    /\ 0 < filled
    /\ filled < buffer_size
    /\ items > buffer_size - filled
    /\ offset = 0

\* ------------------------------------------------------------------ C30
\* C30: whatever FftAvgChanged messages have been handled, the UI's
\* averaging number is at least 1, so is the depth the averaging window
\* reads, and a push can always run to its end: its eviction loop stops.
C30_DepthAtLeastOne ==
    /\ fft_avg_num >= 1
    /\ fft_avg >= 1
    /\ (sdr_on /\ pushes < MaxPushes) =>
           ENABLED (\E in_samples \in PowerFrames : AvgWindowPush(in_samples))

\* the depth has been brought down to 1 and a push has run on a window
\* that was full at that depth
C30_Witness ==
    /\ ~depth_const
    /\ fft_avg_num = 1
    /\ fft_avg = 1
    /\ pushes > 0
    /\ prev_len = 1
    /\ Len(window) = 1

\* ------------------------------------------------------------------ C31
\* C31: a Tick that has taken the ring guard always runs to its end and
\* releases it, whatever the waterfall's height, 0 included, and when it
\* has ended the waterfall holds at most `height` lines.
C31_TickEndsAndReleasesGuard ==
    /\ [](rpc = "hold" => ENABLED DropGuard)
    /\ [][(rpc = "hold" /\ rpc' # "hold") =>
              (holder'[rtail] = "free" /\ Len(handels') <= height)]_vars

\* ------------------------------------------------------------------ C32
\* C32: between two messages of the UI, the recording flag is true exactly
\* when the sink has a writer open, and it is false whenever no device is
\* open.
C32_FlagMatchesSession ==
    rpc = "idle" =>
        /\ recording_toggled <=> writer # NoWriter
        /\ ~sdr_on => ~recording_toggled

\* ------------------------------------------------------------------ C33
\* C33: whenever a writer is open the sample rate of the sink's spec is
\* above 0, so no duration query divides by zero, in whatever order the
\* spec, toggle and duration messages arrive.
C33_DurationNeverDividesByZero ==
    /\ writer # NoWriter => spec.sample_rate > 0
    /\ last = "duration" => ~panicked

====
